---- MODULE Spec2Model ----
(***************************************************************************)
(* Onboardbase provider of external-secrets: the HTTP client               *)
(* (pkg/provider/onboardbase/client/client.go).                            *)
(*                                                                         *)
(* Go strings that the code formats, joins or URL-encodes are sequences of *)
(* tokens, so that formatting and encoding are computed and not assumed.   *)
(* Byte strings whose content the code only parses (response bodies,       *)
(* ciphertexts, plaintexts) are records tagged with `kind`.                *)
(***************************************************************************)
EXTENDS Integers, Sequences, FiniteSets, TLC

VARIABLES client, built, heap, pc, call, sent, resp, result, held

vars == <<client, built, heap, pc, call, sent, resp, result, held>>

(***************************************************************************)
(* Bounds of the model.                                                    *)
(***************************************************************************)
MaxLen == 1          \* longest project / environment string, in characters
MaxEnvelopes == 2    \* most ciphertexts in one response
MaxMessages == 2     \* most messages in one error envelope
NumCallers == 2      \* goroutines sharing the client in SpecConc

SeqsUpTo(S, n) == UNION {[1..k -> S] : k \in 0..n}

Chars == {"a", "&"}
Strs == SeqsUpTo(Chars, MaxLen)
Names == {"k1", "k2", "k3"}
APIKeys == {"", "key"}
PassCodes == {"", "p1"}
Statuses == {199, 200, 299, 300, 399, 400}
ContentTypes ==
    {<<"application/json">>, <<"application/json", "; charset=utf-8">>, <<"text/html">>}

Nil == [kind |-> "nil"]
EmptyStr == [kind |-> "empty"]
EmptyMap == [k \in {} |-> ""]

(***************************************************************************)
(* Ciphertexts and plaintexts.  A ciphertext decrypts to its plaintext     *)
(* under the passphrase it was encrypted with and fails under any other.   *)
(***************************************************************************)
Encrypt(pass, plain) == [kind |-> "cipher", pass |-> pass, plain |-> plain]
RawSecret(k, v) == [kind |-> "json", Key |-> k, Value |-> v]
BadText == [kind |-> "text", text |-> "not json"]

Envelopes ==
    { Encrypt("p1", RawSecret("k1", "v1")),
      Encrypt("p1", RawSecret("k2", "v2")),
      Encrypt("p1", RawSecret("k1", "")),
      Encrypt("p1", BadText),
      Encrypt("other", RawSecret("k2", "v1")) }

aesdecryptRun(secret, passphrase) ==
    IF secret.pass = passphrase
    THEN [ok |-> TRUE, plain |-> secret.plain]
    ELSE [ok |-> FALSE, plain |-> EmptyStr]

\* json.Unmarshal([]byte(decrypted), &decryptedJSON)
UnmarshalRawSecret(plain) ==
    IF plain.kind = "json"
    THEN [ok |-> TRUE, Key |-> plain.Key, Value |-> plain.Value]
    ELSE [ok |-> FALSE, Key |-> "", Value |-> ""]

(***************************************************************************)
(* Response bodies.                                                        *)
(***************************************************************************)
SecretsBody(secrets) == [kind |-> "secrets", secrets |-> secrets]
ErrorBody(messages) == [kind |-> "errenv", messages |-> messages]
MalformedBody(text) == [kind |-> "malformed", text |-> text]

Bodies ==
    {SecretsBody(s) : s \in SeqsUpTo(Envelopes, MaxEnvelopes)}
    \cup {ErrorBody(m) : m \in SeqsUpTo({"m1", "m2"}, MaxMessages)}
    \cup {MalformedBody(<<>>), MalformedBody(<<"<", "html", ">">>)}

\* len(bodyResponse)
BodyLen(body) ==
    CASE body.kind = "secrets" -> 2 + Len(body.secrets)
      [] body.kind = "errenv" -> 2 + Len(body.messages)
      [] OTHER -> Len(body.text)

\* json.Unmarshal(response.Body, &data) for data of type secretResponseBody:
\* any JSON object parses, a missing data.secrets leaves the list empty
UnmarshalSecretResponseBody(body) ==
    CASE body.kind = "secrets" -> [ok |-> TRUE, Secrets |-> body.secrets]
      [] body.kind = "errenv" -> [ok |-> TRUE, Secrets |-> <<>>]
      [] OTHER -> [ok |-> FALSE, Secrets |-> <<>>]

\* json.Unmarshal(bodyResponse, &errResponse) for apiErrorResponse
UnmarshalErrorResponse(body) ==
    CASE body.kind = "errenv" -> [ok |-> TRUE, Messages |-> body.messages]
      [] body.kind = "secrets" -> [ok |-> TRUE, Messages |-> <<>>]
      [] OTHER -> [ok |-> FALSE, Messages |-> <<>>]

(***************************************************************************)
(* Outcomes of httpClient.Do followed by io.ReadAll.                       *)
(***************************************************************************)
Outcomes ==
    {[kind |-> "transport"]}
    \cup [kind : {"response"}, status : Statuses, ctype : ContentTypes,
          body : Bodies, readOK : {TRUE}]
    \cup [kind : {"response"}, status : {200, 400}, ctype : ContentTypes,
          body : {MalformedBody(<<>>)}, readOK : {FALSE}]

APIError(err, message, data) ==
    [kind |-> "APIError", Err |-> err, Message |-> message, Data |-> data]

\* strings.Join(elems, "\n")
RECURSIVE Join(_)
Join(elems) ==
    IF Len(elems) = 0 THEN <<>>
    ELSE IF Len(elems) = 1 THEN <<elems[1]>>
    ELSE <<elems[1], "\n">> \o Join(Tail(elems))

\* strings.HasPrefix
HasPrefix(s, prefix) ==
    Len(s) >= Len(prefix) /\ SubSeq(s, 1, Len(prefix)) = prefix

\* isSuccess without the 3xx range
isSuccess_only2xx(statusCode) == statusCode >= 200 /\ statusCode <= 299

isSuccess(statusCode) ==
    (statusCode >= 200 /\ statusCode <= 299)
    \/ (statusCode >= 300 /\ statusCode <= 399)

(***************************************************************************)
(* URLs.  A URL string is a token sequence <<scheme, "://", host, path...>>.*)
(* *url.URL values live in `heap`; address 0 is reserved for the client's  *)
(* baseURL, address p for the copy caller p obtained from BaseURL, and     *)
(* TmpAddr for the copy performRequest makes and drops.                    *)
(***************************************************************************)
Addrs == 0..(NumCallers + 1)
TmpAddr == NumCallers + 1
DefaultBaseURL == <<"https", "://", "public.onboardbase.com", "/api/v1", "/">>

\* strings.TrimSuffix
TrimSuffix(s, suffix) ==
    IF Len(s) >= Len(suffix)
       /\ SubSeq(s, Len(s) - Len(suffix) + 1, Len(s)) = suffix
    THEN SubSeq(s, 1, Len(s) - Len(suffix))
    ELSE s

\* url.Parse: a malformed escape is rejected, a string without "://" has no scheme
urlParse(s) ==
    IF \E i \in 1..Len(s) : s[i] = "%"
    THEN [ok |-> FALSE, url |-> Nil]
    ELSE IF Len(s) >= 3 /\ s[2] = "://"
    THEN [ok |-> TRUE,
          url |-> [Scheme |-> s[1], Host |-> s[3], Path |-> SubSeq(s, 4, Len(s))]]
    ELSE [ok |-> TRUE, url |-> [Scheme |-> "", Host |-> "", Path |-> s]]

\* (*url.URL).String
urlString(u) ==
    (IF u.Scheme = "" THEN <<>> ELSE <<u.Scheme, "://">>)
    \o (IF u.Host = "" THEN <<>> ELSE <<u.Host>>)
    \o u.Path

\* SetBaseURL: the URL value c.baseURL is set to, or the parse error
SetBaseURL(urlStr) ==
    LET parsed == urlParse(TrimSuffix(urlStr, <<"/">>)) IN
    IF ~parsed.ok THEN [ok |-> FALSE, url |-> Nil]
    ELSE IF parsed.url.Scheme = ""
    THEN [ok |-> TRUE, url |-> [parsed.url EXCEPT !.Scheme = "https"]]
    ELSE parsed

\* NewOnboardbaseClient: the client, the URL stored at its baseURL, the error
NewOnboardbaseClient(onboardbaseAPIKey, onboardbasePasscode) ==
    LET set == SetBaseURL(DefaultBaseURL) IN
    IF ~set.ok
    THEN [client |-> Nil, url |-> Nil,
          err |-> [kind |-> "APIError", Err |-> [kind |-> "url"],
                   Message |-> <<"setting base URL failed">>, Data |-> EmptyStr]]
    ELSE [client |-> [kind |-> "client",
                      OnboardbaseAPIKey |-> onboardbaseAPIKey,
                      OnboardbasePassCode |-> onboardbasePasscode,
                      VerifyTLS |-> TRUE,
                      UserAgent |-> "onboardbase-external-secrets",
                      baseURL |-> 0],
          url |-> set.url,
          err |-> Nil]

\* a BaseURL that returns the client's own pointer
BaseURL_alias(h, base, fresh) == [heap |-> h, ret |-> base]

\* BaseURL: u := *c.baseURL; return &u
BaseURL(h, base, fresh) ==
    [heap |-> [h EXCEPT ![fresh] = h[base]], ret |-> fresh]

(***************************************************************************)
(* Query parameters.                                                       *)
(***************************************************************************)
Put(m, k, v) == [x \in DOMAIN m \cup {k} |-> IF x = k THEN v ELSE m[x]]

\* Go map read: the zero value for a missing key (also on a nil map)
Lookup(m, k) == IF k \in DOMAIN m THEN m[k] ELSE ""

\* buildQueryParams without the emptiness tests
SecretsRequest_buildQueryParams_always(r) ==
    Put(Put(EmptyMap, "project", r.Project), "environment", r.Environment)

SecretsRequest_buildQueryParams(r) ==
    LET p1 == IF r.Project # <<>> THEN Put(EmptyMap, "project", r.Project)
              ELSE EmptyMap
    IN IF r.Environment # <<>> THEN Put(p1, "environment", r.Environment) ELSE p1

SecretRequest_buildQueryParams(r) ==
    LET p1 == IF r.Project # <<>> THEN Put(EmptyMap, "project", r.Project)
              ELSE EmptyMap
    IN IF r.Environment # <<>> THEN Put(p1, "environment", r.Environment) ELSE p1

\* url.QueryEscape, one character at a time
EscapeChar(c) ==
    CASE c = "&" -> "%26"
      [] c = "=" -> "%3D"
      [] c = " " -> "+"
      [] OTHER -> c

QueryEscape(s) == [i \in 1..Len(s) |-> EscapeChar(s[i])]

\* url.Values.Encode: keys in sorted order, key=value pairs joined by "&"
KeyOrder == <<"environment", "project">>

RECURSIVE EncodePairs(_, _)
EncodePairs(params, keys) ==
    IF Len(keys) = 0 THEN <<>>
    ELSE LET k == Head(keys)
             pair == <<k, "=">> \o QueryEscape(params[k])
         IN IF Len(keys) = 1 THEN pair
            ELSE pair \o <<"&">> \o EncodePairs(params, Tail(keys))

InParams(params, k) == k \in DOMAIN params

Encode(params) ==
    EncodePairs(params, SelectSeq(KeyOrder, LAMBDA k : InParams(params, k)))

(***************************************************************************)
(* performRequest, split where the calling goroutine blocks: everything up *)
(* to httpClient.Do(req), and everything from its return on.               *)
(***************************************************************************)
performRequestSend(c, h, path, method, params) ==
    LET b == BaseURL(h, c.baseURL, TmpAddr)
        urlStr == urlString(b.heap[b.ret]) \o <<path>>
    IN IF ~urlParse(urlStr).ok
       THEN [ok |-> FALSE, req |-> Nil,
             err |-> APIError([kind |-> "url"], <<"invalid API URL: ">> \o urlStr,
                              EmptyStr)]
       ELSE [ok |-> TRUE,
             req |-> [method |-> method,
                      url |-> urlStr,
                      query |-> Encode(params),
                      accept |-> "application/json",
                      user_agent |-> c.UserAgent,
                      api_key |-> c.OnboardbaseAPIKey],
             err |-> Nil]

apiResponse(outcome, body) ==
    [kind |-> "apiResponse", StatusCode |-> outcome.status,
     ContentType |-> outcome.ctype, Body |-> body]

\* the non-JSON rejection with the body put in Data
nonJSONError_echo(statusCode, bodyResponse) ==
    APIError([kind |-> "status", code |-> statusCode, bytes |-> BodyLen(bodyResponse)],
             <<"unable to load response">>, bodyResponse)

\* the error for a rejected response whose content type is not JSON
nonJSONError(statusCode, bodyResponse) ==
    APIError([kind |-> "status", code |-> statusCode, bytes |-> BodyLen(bodyResponse)],
             <<"unable to load response">>, EmptyStr)

\* the branch taken when !success
rejected(outcome, response) ==
    IF HasPrefix(outcome.ctype, <<"application/json">>)
    THEN LET errResponse == UnmarshalErrorResponse(outcome.body) IN
         IF ~errResponse.ok
         THEN [response |-> response,
               err |-> APIError([kind |-> "json"],
                                <<"unable to unmarshal error JSON payload">>, EmptyStr)]
         ELSE [response |-> response,
               err |-> APIError(Nil, Join(errResponse.Messages), EmptyStr)]
    ELSE [response |-> Nil, err |-> nonJSONError(outcome.status, outcome.body)]

\* after io.ReadAll succeeded err is nil, so the `success && err != nil`
\* branch is never taken
performRequestRecv(outcome) ==
    IF outcome.kind = "transport"
    THEN [response |-> Nil,
          err |-> APIError([kind |-> "transport"], <<"unable to load response">>,
                           EmptyStr)]
    ELSE IF ~outcome.readOK
    THEN [response |-> apiResponse(outcome, Nil),
          err |-> APIError([kind |-> "read"],
                           <<"unable to read entire response body">>, EmptyStr)]
    ELSE LET response == apiResponse(outcome, outcome.body) IN
         IF ~isSuccess(outcome.status)
         THEN rejected(outcome, response)
         ELSE [response |-> response, err |-> Nil]

(***************************************************************************)
(* The decryption loop.  A nil map reads like an empty one, so the nil map *)
(* returned with an error is EmptyMap.                                     *)
(***************************************************************************)
RECURSIVE decryptLoop(_, _, _)
decryptLoop(passphrase, secrets, kv) ==
    IF Len(secrets) = 0 THEN [kv |-> kv, err |-> Nil]
    ELSE LET secret == Head(secrets)
             decrypted == aesdecryptRun(secret, passphrase)
             decryptedJSON == UnmarshalRawSecret(decrypted.plain)
         IN IF ~decrypted.ok
            THEN [kv |-> EmptyMap,
                  err |-> APIError([kind |-> "decrypt"],
                                   <<"unable to decrypt secret payload">>, secret)]
            ELSE IF ~decryptedJSON.ok
            THEN [kv |-> EmptyMap,
                  err |-> APIError([kind |-> "json"],
                                   <<"unable to unmarshal secret payload">>,
                                   decrypted.plain)]
            ELSE decryptLoop(passphrase, Tail(secrets),
                             Put(kv, decryptedJSON.Key, decryptedJSON.Value))

\* the loop started one envelope late
getSecretsFromPayload_skipfirst(c, data) ==
    IF Len(data) = 0 THEN [kv |-> EmptyMap, err |-> Nil]
    ELSE decryptLoop(c.OnboardbasePassCode, Tail(data), EmptyMap)

getSecretsFromPayload(c, data) ==
    decryptLoop(c.OnboardbasePassCode, data, EmptyMap)

NotFoundMessage(request) ==
    <<"secret ", request.Name, " for project '">> \o request.Project
    \o <<"' and environment '">> \o request.Environment \o <<"' not found">>

\* the map read without the test for the empty value
lookupSecret_nocheck(secrets, request) ==
    [ret |-> [kind |-> "SecretResponse", Name |-> request.Name,
              Value |-> Lookup(secrets, request.Name)],
     err |-> Nil]

\* GetSecret from the map read on
lookupSecret(secrets, request) ==
    LET secret == Lookup(secrets, request.Name) IN
    IF secret = ""
    THEN [ret |-> Nil, err |-> APIError(Nil, NotFoundMessage(request), EmptyStr)]
    ELSE [ret |-> [kind |-> "SecretResponse", Name |-> request.Name,
                   Value |-> Lookup(secrets, request.Name)],
          err |-> Nil]

\* GetSecret from the return of performRequest on; the error of
\* getSecretsFromPayload is assigned to the blank identifier
GetSecret(c, request, outcome) ==
    LET pr == performRequestRecv(outcome) IN
    IF pr.err # Nil THEN [ret |-> Nil, err |-> pr.err]
    ELSE LET data == UnmarshalSecretResponseBody(pr.response.Body) IN
         IF ~data.ok
         THEN [ret |-> Nil,
               err |-> APIError([kind |-> "json"],
                                <<"unable to unmarshal secret payload">>,
                                pr.response.Body)]
         ELSE lookupSecret(getSecretsFromPayload(c, data.Secrets).kv, request)

\* GetSecrets from the return of performRequest on
GetSecrets(c, request, outcome) ==
    LET pr == performRequestRecv(outcome) IN
    IF pr.err # Nil THEN [ret |-> Nil, err |-> pr.err]
    ELSE LET data == UnmarshalSecretResponseBody(pr.response.Body) IN
         IF ~data.ok
         THEN [ret |-> Nil,
               err |-> APIError([kind |-> "json"],
                                <<"unable to unmarshal secret payload">>,
                                pr.response.Body)]
         ELSE [ret |-> [kind |-> "SecretsResponse",
                        Secrets |-> getSecretsFromPayload(c, data.Secrets).kv,
                        Body |-> pr.response.Body],
               err |-> Nil]

\* Authenticate from the return of performRequest on
Authenticate(outcome) ==
    [ret |-> Nil, err |-> performRequestRecv(outcome).err]

(***************************************************************************)
(* State.                                                                  *)
(*   client   the *OnboardbaseClient, Nil before construction              *)
(*   built    the configuration as NewOnboardbaseClient left it (history)  *)
(*   heap     the url.URL values, by address                               *)
(*   pc       per calling goroutine: "idle", "waiting" (blocked in         *)
(*            httpClient.Do) or "done" (the call has returned)             *)
(*   call     the operation in progress and its request                    *)
(*   sent     the requests handed to the HTTP client by this invocation    *)
(*   resp     what the HTTP client answered                                *)
(*   result   what the operation returned: (value, error)                  *)
(*   held     the *url.URL the caller got from BaseURL                     *)
(***************************************************************************)
Callers == DOMAIN pc

NoCall == [op |-> "none", Name |-> "", Project |-> <<>>, Environment |-> <<>>]
NoResult == [ret |-> Nil, err |-> Nil]
NoURL == [has |-> FALSE, addr |-> 0]

SecretRequests == [Name : Names, Project : Strs, Environment : Strs]
SecretsRequests == [Name : {""}, Project : Strs, Environment : Strs]

Config(c, h) ==
    [OnboardbaseAPIKey |-> c.OnboardbaseAPIKey,
     OnboardbasePassCode |-> c.OnboardbasePassCode,
     UserAgent |-> c.UserAgent,
     VerifyTLS |-> c.VerifyTLS,
     baseURL |-> h[c.baseURL]]

InitFor(callers) ==
    /\ client = Nil
    /\ built = Nil
    /\ heap = [a \in Addrs |-> Nil]
    /\ pc = [p \in callers |-> "idle"]
    /\ call = [p \in callers |-> NoCall]
    /\ sent = [p \in callers |-> <<>>]
    /\ resp = [p \in callers |-> Nil]
    /\ result = [p \in callers |-> NoResult]
    /\ held = [p \in callers |-> NoURL]

Init == InitFor({1})

InitConc == InitFor(1..NumCallers)

Construct(onboardbaseAPIKey, onboardbasePasscode) ==
    /\ client = Nil
    /\ LET new == NewOnboardbaseClient(onboardbaseAPIKey, onboardbasePasscode) IN
       /\ new.err = Nil
       /\ client' = new.client
       /\ heap' = [heap EXCEPT ![new.client.baseURL] = new.url]
       /\ built' = Config(client', heap')
    /\ UNCHANGED <<pc, call, sent, resp, result, held>>

\* the operation runs up to httpClient.Do and blocks there, or returns the
\* error of forming the request
Start(p, op, request, path, params) ==
    /\ client # Nil
    /\ pc[p] = "idle"
    /\ call' = [call EXCEPT ![p] =
                   [op |-> op, Name |-> request.Name, Project |-> request.Project,
                    Environment |-> request.Environment]]
    /\ LET s == performRequestSend(client, heap, path, "GET", params) IN
       IF s.ok
       THEN /\ sent' = [sent EXCEPT ![p] = Append(@, s.req)]
            /\ pc' = [pc EXCEPT ![p] = "waiting"]
            /\ UNCHANGED result
       ELSE /\ result' = [result EXCEPT ![p] = [ret |-> Nil, err |-> s.err]]
            /\ pc' = [pc EXCEPT ![p] = "done"]
            /\ UNCHANGED sent
    /\ UNCHANGED <<client, built, heap, resp, held>>

\* httpClient.Do returns and the operation runs to its return
Finish(p, op, outcome, res) ==
    /\ pc[p] = "waiting"
    /\ call[p].op = op
    /\ resp' = [resp EXCEPT ![p] = outcome]
    /\ result' = [result EXCEPT ![p] = res]
    /\ pc' = [pc EXCEPT ![p] = "done"]
    /\ UNCHANGED <<client, built, heap, call, sent, held>>

\* the inputs are chosen after the guards, which do not depend on them
CallGetSecret(p, requests) ==
    /\ client # Nil /\ pc[p] = "idle"
    /\ \E request \in requests :
          Start(p, "GetSecret", request, "/secrets",
                SecretRequest_buildQueryParams(request))

ReturnGetSecret(p, outcomes) ==
    /\ pc[p] = "waiting" /\ call[p].op = "GetSecret"
    /\ \E outcome \in outcomes :
          Finish(p, "GetSecret", outcome, GetSecret(client, call[p], outcome))

CallGetSecrets(p, requests) ==
    /\ client # Nil /\ pc[p] = "idle"
    /\ \E request \in requests :
          Start(p, "GetSecrets", request, "/secrets",
                SecretsRequest_buildQueryParams(request))

ReturnGetSecrets(p, outcomes) ==
    /\ pc[p] = "waiting" /\ call[p].op = "GetSecrets"
    /\ \E outcome \in outcomes :
          Finish(p, "GetSecrets", outcome, GetSecrets(client, call[p], outcome))

CallAuthenticate(p) ==
    Start(p, "Authenticate", NoCall, "/team/members", EmptyMap)

ReturnAuthenticate(p, outcomes) ==
    /\ pc[p] = "waiting" /\ call[p].op = "Authenticate"
    /\ \E outcome \in outcomes :
          Finish(p, "Authenticate", outcome, Authenticate(outcome))

\* the caller has consumed the result and may call again
Resume(p) ==
    /\ pc[p] = "done"
    /\ pc' = [pc EXCEPT ![p] = "idle"]
    /\ call' = [call EXCEPT ![p] = NoCall]
    /\ sent' = [sent EXCEPT ![p] = <<>>]
    /\ resp' = [resp EXCEPT ![p] = Nil]
    /\ result' = [result EXCEPT ![p] = NoResult]
    /\ UNCHANGED <<client, built, heap, held>>

\* the caller takes the base URL
CallBaseURL(p) ==
    /\ client # Nil
    /\ pc[p] = "idle"
    /\ ~held[p].has
    /\ LET b == BaseURL(heap, client.baseURL, p) IN
       /\ heap' = b.heap
       /\ held' = [held EXCEPT ![p] = [has |-> TRUE, addr |-> b.ret]]
    /\ UNCHANGED <<client, built, pc, call, sent, resp, result>>

\* the caller writes through the pointer BaseURL gave it
MutateURL(p) ==
    /\ held[p].has
    /\ heap[held[p].addr].Host # "evil.example"
    /\ heap' = [heap EXCEPT ![held[p].addr] = [@ EXCEPT !.Host = "evil.example"]]
    /\ UNCHANGED <<client, built, pc, call, sent, resp, result, held>>

Next ==
    \/ \E k \in APIKeys, pass \in PassCodes : Construct(k, pass)
    \/ \E p \in Callers : CallGetSecret(p, SecretRequests)
    \/ \E p \in Callers : ReturnGetSecret(p, Outcomes)
    \/ \E p \in Callers : CallGetSecrets(p, SecretsRequests)
    \/ \E p \in Callers : ReturnGetSecrets(p, Outcomes)
    \/ \E p \in Callers : CallAuthenticate(p)
    \/ \E p \in Callers : ReturnAuthenticate(p, Outcomes)
    \/ \E p \in Callers : Resume(p)

Spec == Init /\ [][Next]_vars

(***************************************************************************)
(* Several goroutines on one client, on fewer inputs.                      *)
(***************************************************************************)
ConcSecretRequests == {[Name |-> "k1", Project |-> <<"a">>, Environment |-> <<>>]}
ConcSecretsRequests == {[Name |-> "", Project |-> <<>>, Environment |-> <<"a">>]}
ConcOutcomes ==
    { [kind |-> "response", status |-> 200, ctype |-> <<"text/html">>,
       body |-> SecretsBody(<<Encrypt("p1", RawSecret("k1", "v1"))>>), readOK |-> TRUE],
      [kind |-> "response", status |-> 200, ctype |-> <<"text/html">>,
       body |-> SecretsBody(<<Encrypt("p1", RawSecret("k2", "v2"))>>), readOK |-> TRUE],
      [kind |-> "response", status |-> 400, ctype |-> <<"text/html">>,
       body |-> MalformedBody(<<"<", "html", ">">>), readOK |-> TRUE] }

NextConc ==
    \/ \E k \in APIKeys, pass \in PassCodes : Construct(k, pass)
    \/ \E p \in Callers : CallGetSecret(p, ConcSecretRequests)
    \/ \E p \in Callers : ReturnGetSecret(p, ConcOutcomes)
    \/ \E p \in Callers : CallGetSecrets(p, ConcSecretsRequests)
    \/ \E p \in Callers : ReturnGetSecrets(p, ConcOutcomes)
    \/ \E p \in Callers : CallAuthenticate(p)
    \/ \E p \in Callers : ReturnAuthenticate(p, ConcOutcomes)
    \/ \E p \in Callers : Resume(p)
    \/ \E p \in Callers : CallBaseURL(p)
    \/ \E p \in Callers : MutateURL(p)

SpecConc == InitConc /\ [][NextConc]_vars

(***************************************************************************)
(* Vocabulary of the properties, stated on the response and not through    *)
(* the operators above.                                                    *)
(***************************************************************************)
Done(p, op) == pc[p] = "done" /\ call[p].op = op

\* the HTTP exchange and the body read succeeded
Answered(p) == resp[p] # Nil /\ resp[p].kind = "response" /\ resp[p].readOK

InRange(status) == status >= 200 /\ status <= 399

\* a success status with a body that parses as the secrets envelope
Delivered(p) ==
    /\ Answered(p)
    /\ InRange(resp[p].status)
    /\ resp[p].body.kind \in {"secrets", "errenv"}

EnvelopesOf(p) ==
    IF resp[p].body.kind = "secrets" THEN resp[p].body.secrets ELSE <<>>

Decrypts(e) == e.pass = client.OnboardbasePassCode
WellFormed(e) == Decrypts(e) /\ e.plain.kind = "json"
Malformed(e) == Decrypts(e) /\ e.plain.kind # "json"

\* envelope i is the last well-formed one that carries key k
Stores(es, i, k) ==
    /\ WellFormed(es[i])
    /\ es[i].plain.Key = k
    /\ \A j \in (i + 1)..Len(es) : ~(WellFormed(es[j]) /\ es[j].plain.Key = k)

IsSuccess(r) == r.err = Nil /\ r.ret # Nil
IsFailure(r) == r.err # Nil /\ r.ret = Nil

\* C1: GetSecret never returns a zero-value success.  A returned GetSecret
\* gives a result or an error, never both and never neither; when the
\* response was delivered and the requested name is absent from the decrypted
\* map or stored with the empty value, it gives the not-found error naming
\* the secret, the project and the environment; a result carries the
\* requested name and the non-empty value the response stores under it.
C1_GetSecretNeverZeroValue ==
    \A p \in Callers : Done(p, "GetSecret") /\ resp[p] # Nil =>
        LET r == result[p]
            es == EnvelopesOf(p)
            all == \A i \in 1..Len(es) : WellFormed(es[i])
            stored == {i \in 1..Len(es) : Stores(es, i, call[p].Name)}
        IN /\ IsSuccess(r) \/ IsFailure(r)
           /\ Delivered(p)
              /\ (~all \/ \A i \in stored : es[i].plain.Value = "")
              => /\ IsFailure(r)
                 /\ r.err.Message =
                      <<"secret ", call[p].Name, " for project '">>
                      \o call[p].Project \o <<"' and environment '">>
                      \o call[p].Environment \o <<"' not found">>
           /\ IsSuccess(r)
              => /\ Delivered(p)
                 /\ r.ret.Name = call[p].Name
                 /\ r.ret.Value # ""
                 /\ \E i \in stored : es[i].plain.Value = r.ret.Value

\* C1 witness: the requested name is stored with the empty value and GetSecret
\* has returned
C1_Witness ==
    \E p \in Callers :
        /\ Done(p, "GetSecret") /\ Delivered(p)
        /\ \A i \in 1..Len(EnvelopesOf(p)) : WellFormed(EnvelopesOf(p)[i])
        /\ \E i \in 1..Len(EnvelopesOf(p)) :
              /\ Stores(EnvelopesOf(p), i, call[p].Name)
              /\ EnvelopesOf(p)[i].plain.Value = ""
        /\ IsFailure(result[p])

\* the response carries only envelopes that decrypt to well-formed records
\* with pairwise distinct keys
AllDistinct(es) ==
    /\ \A i \in 1..Len(es) : WellFormed(es[i])
    /\ \A i, j \in 1..Len(es) : i # j => es[i].plain.Key # es[j].plain.Key

\* C2: for a delivered response of N envelopes that all decrypt to
\* well-formed records with N distinct keys, GetSecrets returns no error, a
\* mapping of exactly N entries, each key mapped to its plaintext value, and
\* the raw body; N = 0 gives the empty mapping.
C2_GetSecretsExactlyN ==
    \A p \in Callers :
        Done(p, "GetSecrets") /\ Delivered(p) /\ AllDistinct(EnvelopesOf(p)) =>
            LET r == result[p]
                es == EnvelopesOf(p)
            IN /\ IsSuccess(r)
               /\ Cardinality(DOMAIN r.ret.Secrets) = Len(es)
               /\ \A i \in 1..Len(es) :
                     /\ es[i].plain.Key \in DOMAIN r.ret.Secrets
                     /\ r.ret.Secrets[es[i].plain.Key] = es[i].plain.Value
               /\ r.ret.Body = resp[p].body

\* C2 witness: GetSecrets has returned for a response of two envelopes with
\* distinct keys
C2_Witness ==
    \E p \in Callers :
        /\ Done(p, "GetSecrets") /\ Delivered(p)
        /\ AllDistinct(EnvelopesOf(p))
        /\ Len(EnvelopesOf(p)) = 2

\* C3: in GetSecret and GetSecrets, when an envelope of a delivered response
\* decrypts to plaintext that is not well-formed JSON, the call fails with a
\* decode error carrying that plaintext and returns no result.
C3_MalformedPlaintextFails ==
    \A p \in Callers :
        (Done(p, "GetSecret") \/ Done(p, "GetSecrets")) /\ Delivered(p)
        /\ (\E i \in 1..Len(EnvelopesOf(p)) : Malformed(EnvelopesOf(p)[i]))
        => /\ IsFailure(result[p])
           /\ result[p].err.Err = [kind |-> "json"]
           /\ \E i \in 1..Len(EnvelopesOf(p)) :
                 /\ Malformed(EnvelopesOf(p)[i])
                 /\ result[p].err.Data = EnvelopesOf(p)[i].plain

\* the mapping of the well-formed envelopes, the others dropped
IsDropMap(m, es) ==
    /\ DOMAIN m = {es[i].plain.Key : i \in {j \in 1..Len(es) : WellFormed(es[j])}}
    /\ \A k \in DOMAIN m : \E i \in 1..Len(es) :
          Stores(es, i, k) /\ m[k] = es[i].plain.Value

\* C4: when an envelope of a delivered response fails to decrypt, GetSecrets
\* either returns an error or returns the mapping of the envelopes that did
\* decrypt, the failing ones dropped.
C4_DecryptFailureDropsOrFails ==
    \A p \in Callers :
        Done(p, "GetSecrets") /\ Delivered(p)
        /\ (\E i \in 1..Len(EnvelopesOf(p)) : ~Decrypts(EnvelopesOf(p)[i]))
        => \/ IsFailure(result[p])
           \/ /\ IsSuccess(result[p])
              /\ IsDropMap(result[p].ret.Secrets, EnvelopesOf(p))

\* C5: no client exists with an empty API key or an empty passcode, and no
\* request is issued with an empty credential.
C5_EmptyCredentialRejected ==
    /\ client # Nil =>
          client.OnboardbaseAPIKey # "" /\ client.OnboardbasePassCode # ""
    /\ \A p \in Callers : \A i \in 1..Len(sent[p]) : sent[p][i].api_key # ""

IsJSONType(ctype) == Len(ctype) >= 1 /\ ctype[1] = "application/json"

\* msg is the messages with a newline between each two
IsNewlineJoined(msg, messages) ==
    /\ Len(msg) = (IF Len(messages) = 0 THEN 0 ELSE 2 * Len(messages) - 1)
    /\ \A i \in 1..Len(messages) : msg[2 * i - 1] = messages[i]
    /\ \A i \in 1..(Len(messages) - 1) : msg[2 * i] = "\n"

\* C6: a response whose status is outside [200,399] always yields an error
\* and no result.  With a JSON content type and a body that parses as the
\* error envelope the message is the envelope's messages joined by newlines;
\* with a JSON content type and a body that does not parse the error is a
\* decode error; with any other content type the error holds the status code
\* and the body length only, its Data is empty and the body is in none of its
\* fields.
C6_RejectedResponseError ==
    \A p \in Callers :
        pc[p] = "done" /\ Answered(p) /\ ~InRange(resp[p].status) =>
            LET r == result[p]
                body == resp[p].body
            IN /\ IsFailure(r)
               /\ IsJSONType(resp[p].ctype) /\ body.kind = "errenv"
                  => r.err.Err = Nil /\ IsNewlineJoined(r.err.Message, body.messages)
               /\ IsJSONType(resp[p].ctype) /\ body.kind = "secrets"
                  => r.err.Err = Nil /\ r.err.Message = <<>>
               /\ IsJSONType(resp[p].ctype) /\ body.kind = "malformed"
                  => r.err.Err = [kind |-> "json"]
               /\ ~IsJSONType(resp[p].ctype)
                  => /\ r.err.Err = [kind |-> "status", code |-> resp[p].status,
                                     bytes |-> BodyLen(body)]
                     /\ r.err.Message = <<"unable to load response">>
                     /\ r.err.Data = EmptyStr
                     /\ r.err.Data # body

\* C6 witness: a call has returned for a rejected response that is not JSON
\* and has a non-empty body
C6_Witness ==
    \E p \in Callers :
        /\ pc[p] = "done" /\ Answered(p)
        /\ resp[p].status = 400
        /\ ~IsJSONType(resp[p].ctype)
        /\ BodyLen(resp[p].body) > 0
        /\ IsFailure(result[p])

\* C7: when the exchange and the body read succeed, performRequest (whose
\* error Authenticate returns unchanged) returns no error if and only if the
\* status is in [200,399]; no other operation succeeds outside that range.
C7_SuccessIffStatusInRange ==
    \A p \in Callers :
        pc[p] = "done" /\ Answered(p) =>
            /\ call[p].op = "Authenticate"
               => (result[p].err = Nil <=> InRange(resp[p].status))
            /\ result[p].err = Nil => InRange(resp[p].status)

\* C7 witness: Authenticate has returned without error on a 3xx status
C7_Witness ==
    \E p \in Callers :
        /\ Done(p, "Authenticate") /\ Answered(p)
        /\ resp[p].status = 399
        /\ result[p].err = Nil

(***************************************************************************)
(* Reading a query string back: pairs are separated by "&", a pair is      *)
(* key "=" value, the value percent-decoded.                               *)
(***************************************************************************)
UnescapeToken(t) ==
    CASE t = "%26" -> "&"
      [] t = "%3D" -> "="
      [] t = "+" -> " "
      [] OTHER -> t

\* positions at which a pair with this key starts
KeyPositions(q, key) ==
    {i \in 1..Len(q) :
        /\ q[i] = key
        /\ i < Len(q) /\ q[i + 1] = "="
        /\ (i = 1 \/ q[i - 1] = "&")}

\* the last position of the pair starting at i
PairEnd(q, i) ==
    LET seps == {j \in (i + 2)..Len(q) : q[j] = "&"} IN
    IF seps = {} THEN Len(q)
    ELSE (CHOOSE j \in seps : \A k \in seps : j <= k) - 1

ValueAt(q, i) ==
    [n \in 1..(PairEnd(q, i) - (i + 1)) |-> UnescapeToken(q[i + 1 + n])]

CarriesExactly(q, key, value) ==
    IF value = <<>> THEN KeyPositions(q, key) = {}
    ELSE /\ Cardinality(KeyPositions(q, key)) = 1
         /\ \A i \in KeyPositions(q, key) : ValueAt(q, i) = value

\* every pair of the query string has a non-empty value
NoEmptyValue(q) ==
    /\ \A i \in 1..Len(q) : q[i] = "=" => i < Len(q) /\ q[i + 1] # "&"
    /\ \A i \in 1..Len(q) : q[i] = "&" => i > 1 /\ i < Len(q)

\* C8: the query string of every request of GetSecret and GetSecrets has a
\* project parameter iff the request's project is non-empty and an
\* environment parameter iff its environment is non-empty; a parameter that
\* is present decodes to exactly the request's value, and none is sent with
\* an empty value.
C8_QueryOmitsEmpty ==
    \A p \in Callers :
        call[p].op \in {"GetSecret", "GetSecrets"} =>
            \A i \in 1..Len(sent[p]) :
                /\ CarriesExactly(sent[p][i].query, "project", call[p].Project)
                /\ CarriesExactly(sent[p][i].query, "environment",
                                  call[p].Environment)
                /\ NoEmptyValue(sent[p][i].query)

\* C8 witness: a request is out whose project needs escaping and whose
\* environment is empty
C8_Witness ==
    \E p \in Callers :
        /\ pc[p] = "waiting"
        /\ call[p].op \in {"GetSecret", "GetSecrets"}
        /\ call[p].Project = <<"&">>
        /\ call[p].Environment = <<>>
        /\ Len(sent[p]) = 1

\* the failure the invocation met, Nil if it met none
FailureOf(p) ==
    LET pr == performRequestRecv(resp[p]) IN
    IF pr.err # Nil THEN pr.err
    ELSE IF call[p].op = "Authenticate" THEN Nil
    ELSE LET data == UnmarshalSecretResponseBody(resp[p].body)
             loop == getSecretsFromPayload(client, data.Secrets)
         IN IF ~data.ok
            THEN APIError([kind |-> "json"],
                          <<"unable to unmarshal secret payload">>, resp[p].body)
            ELSE IF loop.err # Nil THEN loop.err
            ELSE IF call[p].op = "GetSecret" /\ Lookup(loop.kv, call[p].Name) = ""
            THEN APIError(Nil, NotFoundMessage(call[p]), EmptyStr)
            ELSE Nil

\* C9: an invocation hands at most one request to the HTTP client, and one
\* that met a failure (transport, body read, status, response decode,
\* decryption, plaintext decode, not found) has returned a failure to its
\* caller: an error and no result.
C9_SingleAttemptFailureReturned ==
    \A p \in Callers :
        /\ Len(sent[p]) <= 1
        /\ pc[p] = "done" /\ resp[p] # Nil /\ FailureOf(p) # Nil
           => IsFailure(result[p])

\* an invocation hands at most one request to the HTTP client, and none
\* after it has returned
SingleAttempt ==
    \A p \in Callers :
        /\ Len(sent[p]) <= 1
        /\ pc[p] = "idle" => Len(sent[p]) = 0

\* the entries of m are all stored in the envelopes es
BuiltFrom(m, es) ==
    \A k \in DOMAIN m : \E i \in 1..Len(es) :
        WellFormed(es[i]) /\ es[i].plain.Key = k /\ es[i].plain.Value = m[k]

\* C10: under any interleaving of GetSecret, GetSecrets, Authenticate and
\* BaseURL on one client, with callers writing through the URL BaseURL gave
\* them, the client's configuration equals what construction left, every
\* request goes to the construction-time URL, and what a call returns holds
\* entries of that call's own response only.
C10_ConfigStableNoCrossTalk ==
    /\ client # Nil => Config(client, heap) = built
    /\ \A p \in Callers : \A i \in 1..Len(sent[p]) :
          /\ SubSeq(sent[p][i].url, 1, Len(sent[p][i].url) - 1)
               = <<"https", "://", "public.onboardbase.com", "/api/v1">>
          /\ sent[p][i].api_key = built.OnboardbaseAPIKey
          /\ sent[p][i].user_agent = built.UserAgent
    /\ \A p \in Callers :
          /\ Done(p, "GetSecrets") /\ IsSuccess(result[p])
             => BuiltFrom(result[p].ret.Secrets, EnvelopesOf(p))
          /\ Done(p, "GetSecret") /\ IsSuccess(result[p])
             => \E i \in 1..Len(EnvelopesOf(p)) :
                   /\ WellFormed(EnvelopesOf(p)[i])
                   /\ EnvelopesOf(p)[i].plain.Key = result[p].ret.Name
                   /\ EnvelopesOf(p)[i].plain.Value = result[p].ret.Value

\* C10 witness: two calls have returned the secrets of two different
\* responses while a caller has rewritten the URL it got from BaseURL
C10_Witness ==
    \E p, q \in Callers :
        /\ p # q
        /\ Done(p, "GetSecrets") /\ IsSuccess(result[p])
        /\ Done(q, "GetSecrets") /\ IsSuccess(result[q])
        /\ DOMAIN result[p].ret.Secrets = {"k1"}
        /\ DOMAIN result[q].ret.Secrets = {"k2"}
        /\ \E c \in Callers :
              held[c].has /\ heap[held[c].addr].Host = "evil.example"

====
